---------------------------- MODULE Spec2Model ----------------------------
(***************************************************************************)
(* Model of the Monitora extractor (src/src/component.py): the paginated   *)
(* feed reader read_feed, the record flattener _flatten_dict, and the      *)
(* row writer / watermark tracker of Component.run, with the process exit  *)
(* code chosen by the main entry point.                                    *)
(*                                                                         *)
(* Python values are tagged records, one field name per type so that two   *)
(* values of different types are never compared field by field.  A dict    *)
(* received from the server is a sequence of <<key, value>> pairs in       *)
(* insertion order (the order json.loads keeps); a dict the program only   *)
(* looks keys up in is a function from its keys.                           *)
(***************************************************************************)
EXTENDS Integers, Sequences, FiniteSets, TLC

VARIABLES
    state_file,         \* the persisted state: a dict, empty or {LAST_ID: v}
    start_state,        \* the persisted state when the current run started
    last_written,       \* the integer the last write_state_file call stored, or -1
    pc,                 \* position of the run
    exc,                \* what ended the run: "none" or the exception raised
    exit_code,          \* process exit code, -1 while running
    requests,           \* GET requests issued by this run, in order
    responses,          \* responses received by this run, in order
    articles,           \* read_feed: accumulated articles
    last_processed_id,  \* Component.run: watermark read at the start
    flatten_articles,   \* Component.run: flattened articles
    out_file,           \* the output table file: absent or header + rows
    row_i,              \* index of the next flattened article to write
    max_id,             \* Component.run: running maximum id
    manifest,           \* TRUE once write_manifest has run in this run
    n_mappings,         \* len(tables_output_mapping) of this run's configuration
    retry_of,           \* the run before this one, when it aborted: its start state
    flat_args,          \* arguments of a stand-alone _flatten_dict call
    flat_result         \* its result

vars == <<state_file, start_state, last_written, pc, exc, exit_code, requests,
          responses, articles, last_processed_id, flatten_articles, out_file,
          row_i, max_id, manifest, n_mappings, retry_of, flat_args,
          flat_result>>

(***************************************************************************)
(* Python values                                                           *)
(***************************************************************************)
PyNone == [t |-> "none"]
PyInt(n) == [t |-> "int", i |-> n]
PyFloat(x) == [t |-> "float", f |-> x]
PyStr(s) == [t |-> "str", s |-> s]
PyList(l) == [t |-> "list", l |-> l]
PyDict(d) == [t |-> "dict", d |-> d]
PyBool(b) == [t |-> "bool", b |-> b]

EmptyDict == [k \in {} |-> PyNone]

\* dict.get(key, default)
DictGet(d, key, default) == IF key \in DOMAIN d THEN d[key] ELSE default

\* d[key] = value
DictSet(d, key, value) == (key :> value) @@ d

\* Variant: update keeps the entries d already has.
DictUpdateKeep(d, other) == d @@ other

\* d.update(other)
DictUpdate(d, other) == other @@ d

RECURSIVE JoinInts(_, _)
JoinInts(l, i) ==
    IF i > Len(l) THEN ""
    ELSE IF i = Len(l) THEN ToString(l[i])
    ELSE ToString(l[i]) \o ", " \o JoinInts(l, i + 1)

\* str(list) of a list of integers: "[1, 2]"
StrOfList(l) == "[" \o JoinInts(l, 1) \o "]"

MONITORA_FIELDS == <<
    "id", "title", "url",
    "news_source_id", "news_source_name", "news_source_publisher_id",
    "news_source_publisher_name", "news_source_publisher_country",
    "news_source_publisher_reg_no", "news_source_publisher_street",
    "news_source_publisher_municipality", "news_source_publisher_postal_code",
    "news_source_category_id", "news_source_category_name",
    "news_source_category_category_type_id", "news_source_category_category_type_text",
    "news_source_category_category_type_shorttext",
    "news_source_category_category_type_label",
    "news_source_category_category_type_color",
    "news_source_category_category_type_fill_color", "news_source_country",
    "news_source_country_code", "news_source_language", "news_source_url",
    "news_source_favicon_url", "news_source_monthly_sessions",
    "news_source_monthly_ru", "news_source_daily_ru", "publication_frequency",
    "press_amount", "readership", "sold_amount", "print_ad_price_full_page",
    "listenership", "identical_articles", "pdf_url",
    "small_image_url", "big_image_url", "published", "authors", "perex",
    "language", "word_count", "text_relevance", "social_shares", "pages",
    "all_pages", "cover_page", "imprint_page", "prev_page", "next_page",
    "issue", "reach", "GRP", "OTS", "AVE", "topic_monitor_id", "topic_monitor_name",
    "topic_monitor_image_url", "keyword_monitors", "article_tags", "note",
    "discussion_thread_id", "text", "monthly_ru", "publisher", "daily_ru",
    "monthly_sessions", "sentiment_text" >>

STATE_LAST_ID == "LAST_ID"

BASE_URL_READ_FEED == "https://api.monitora.cz/feed"

(***************************************************************************)
(* _flatten_dict                                                           *)
(***************************************************************************)
\* The result of a call: the dict built, or the end of the process with exit
\* code 2 in the last branch (sys.exit(2), or the KeyError of a[k] in its log
\* line when k is a nested key the article itself lacks).
FlatOk(d) == [exit |-> 0, d |-> d]
FlatExit2 == [exit |-> 2, d |-> EmptyDict]

MergedKey(prefix, k) == IF prefix # "" THEN prefix \o "_" \o k ELSE k

\* Variant: a None value stored under the prefixed key.
NoneKeyMerged(prefix, k) == MergedKey(prefix, k)

\* The key under which a None value is stored.
NoneKey(prefix, k) == k

\* The key under which a list value is stored.
ListKey(prefix, k) == k

\* One pass of "for k in dictionary.keys()" from position i, with the dict
\* built so far in flatten.
RECURSIVE FlattenFrom(_, _, _, _)
FlattenFrom(dictionary, i, prefix, flatten) ==
    IF i > Len(dictionary) THEN FlatOk(flatten)
    ELSE LET k == dictionary[i][1]
             v == dictionary[i][2]
             merged_key == MergedKey(prefix, k)
         IN  IF v.t = "none"
               THEN FlattenFrom(dictionary, i + 1, prefix,
                                DictSet(flatten, NoneKey(prefix, k), PyStr("")))
             ELSE IF v.t = "dict"
               THEN LET sub == FlattenFrom(v.d, 1, merged_key, EmptyDict)
                    IN  IF sub.exit # 0 THEN FlatExit2
                        ELSE FlattenFrom(dictionary, i + 1, prefix,
                                         DictUpdate(flatten, sub.d))
             ELSE IF v.t \in {"str", "int", "float"}
               THEN FlattenFrom(dictionary, i + 1, prefix,
                                DictSet(flatten, merged_key, v))
             ELSE IF v.t = "list"
               THEN FlattenFrom(dictionary, i + 1, prefix,
                                DictSet(flatten, ListKey(prefix, k),
                                        PyStr(StrOfList(v.l))))
             ELSE FlatExit2

_flatten_dict(dictionary, prefix) == FlattenFrom(dictionary, 1, prefix, EmptyDict)


(***************************************************************************)
(* Bounds and the inputs the environment supplies                          *)
(***************************************************************************)
\* Most GET requests one run issues (the server stops offering next_url).
MaxRequests == 2

\* Most output table mappings a configuration holds.
MaxMappings == 2

\* Largest watermark a decimal string of the state file denotes.
MaxDecimal == 9

ApiToken == "secret-token"
FeedId == "7"

\* Articles the server may deliver.  Identifiers are integers (spec section 3)
\* except where an article is malformed on purpose.
ArticlePlain == << <<"id", PyInt(1)>>, <<"title", PyStr("t")>> >>
ArticleNested ==
    << <<"id", PyInt(3)>>,
       <<"news_source", PyDict(<< <<"id", PyInt(7)>>, <<"name", PyStr("n")>> >>)>>,
       <<"authors", PyList(<<1, 2>>)>>,
       <<"note", PyNone>>,
       <<"reach", PyFloat("1.5")>>,
       <<"zzz", PyStr("x")>> >>
ArticleNullIdFirst ==
    << <<"news_source", PyDict(<< <<"id", PyNone>> >>)>>, <<"id", PyInt(2)>> >>
ArticleNullIdLast ==
    << <<"id", PyInt(2)>>, <<"news_source", PyDict(<< <<"id", PyNone>> >>)>> >>
ArticleListIdLast ==
    << <<"id", PyInt(2)>>, <<"publisher", PyDict(<< <<"id", PyList(<<1>>)>> >>)>> >>
ArticleNoId == << <<"title", PyStr("t")>> >>
ArticleBool ==
    << <<"id", PyInt(2)>>, <<"news_source", PyDict(<< <<"flag", PyBool(TRUE)>> >>)>> >>

\* The "articles" arrays a page may carry.
ArticleLists ==
    { <<>>,
      <<ArticlePlain>>,
      <<ArticleNested, ArticlePlain>>,
      <<ArticleNullIdFirst>>,
      <<ArticlePlain, ArticleNullIdLast>>,
      <<ArticleListIdLast>>,
      <<ArticleNoId>>,
      <<ArticlePlain, ArticleBool>> }

\* Continuation URLs the server may hand out.
NextUrls == {"https://api.monitora.cz/feed/7?cursor=a",
             "https://api.monitora.cz/feed/7?cursor=b"}

Statuses == {200, 401, 404, 500}

\* A response body: text json.loads rejects, or a JSON object.
BodyGarbage == [json |-> FALSE, obj |-> EmptyDict]
BodyObject(obj) == [json |-> TRUE, obj |-> obj]

NextUrlValues(canContinue) ==
    {PyNone, PyStr("")} \cup (IF canContinue THEN {PyStr(u) : u \in NextUrls} ELSE {})

Bodies(canContinue) ==
    {BodyGarbage, BodyObject("next_url" :> PyNone)}
    \cup {BodyObject("articles" :> al) : al \in ArticleLists}
    \cup {BodyObject(("articles" :> al) @@ ("next_url" :> n)) :
              al \in ArticleLists, n \in NextUrlValues(canContinue)}

\* The responses the server may give; an error response carries no JSON.
Responses(canContinue) ==
    {[status |-> s, body |-> b] : s \in {200, 500}, b \in Bodies(canContinue)}
    \cup {[status |-> s, body |-> BodyGarbage] : s \in Statuses \ {200}}

\* State files a first run may find: none, or a watermark as a decimal string.
InitialStateFiles == {EmptyDict, STATE_LAST_ID :> PyStr("2")}

(***************************************************************************)
(* Helpers of the run                                                      *)
(***************************************************************************)
NoFile == [exists |-> FALSE, header |-> <<>>, rows |-> <<>>]

\* A file an earlier run left at the output path.  The program never reads
\* it, so its content is one opaque line.
StaleFile == [exists |-> TRUE, header |-> <<"(left by an earlier run)">>, rows |-> <<>>]

\* The run before was the first, or ended normally.
NoRetry == [aborted |-> FALSE, state |-> EmptyDict, file |-> FALSE]

\* int(v) of an int or of a decimal string
IntOf(v) ==
    IF v.t = "int" THEN v.i
    ELSE CHOOSE n \in 0..MaxDecimal : ToString(n) = v.s

\* Variant: the last identifier seen instead of the largest.
PyMaxLast(a, b) == b

\* max(a, b) on integers
PyMax(a, b) == IF b > a THEN b ELSE a

\* Python truth value of next_url
Truthy(v) == ~(v.t = "none" \/ (v.t = "str" /\ v.s = ""))

NoParams == EmptyDict

\* Variant: each page replaces the articles accumulated so far.
AccumulateReplace(arts, new_articles) == new_articles

\* articles += new_articles
Accumulate(arts, new_articles) == arts \o new_articles

\* The status check of the initial response.
InitialFailed(status) == status = 401 \/ status = 404

\* Variant: a continuation response checked like the initial one.
ContinuationFailedAuthOnly(status) == status = 401 \/ status = 404

\* The status check of a continuation response.
ContinuationFailed(status) == status # 200

\* Variant: the running maximum starts from zero.
MaxIdStartZero(last_id) == 0

\* max_id before the first row
MaxIdStart(last_id) == last_id

\* get_request(url, authorization_token, params)
get_request(url, authorization_token, params) ==
    [url |-> url,
     authorization |-> "Token " \o authorization_token,
     params |-> params]

\* Variant: the watermark itself is requested again.
InitialParamsFromLast(last_id) == "lower_id" :> last_id

\* The query parameters of the initial request.
InitialParams(last_id) == "lower_id" :> (last_id + 1)

\* The initial request of read_feed.
InitialRequest(api_token, topic_monitor_id, last_id) ==
    get_request(BASE_URL_READ_FEED \o "/" \o topic_monitor_id, api_token,
                InitialParams(last_id))

\* The continuation request of read_feed.
ContinuationRequest(next_page, api_token) ==
    get_request(next_page, api_token, NoParams)

\* The exit code the main entry point gives an exception that ends run().
MainExit(e) ==
    CASE e = "SystemExit1" -> 1
      [] e = "SystemExit2" -> 2
      [] e = "UserException" -> 1
      [] OTHER -> 2

\* An exception leaves run(): the process exits.
Raise(e) ==
    /\ pc' = "exited"
    /\ exc' = e
    /\ exit_code' = MainExit(e)

\* The text csv writes for a value.
CsvCell(v) ==
    IF v.t = "int" THEN ToString(v.i)
    ELSE IF v.t = "float" THEN v.f
    ELSE v.s

\* Variant: a row holds only the columns the record has.
ProjectRowPresentOnly(a) ==
    LET present == SelectSeq(MONITORA_FIELDS, LAMBDA k : k \in DOMAIN a)
    IN  [c \in 1..Len(present) |-> CsvCell(a[present[c]])]

\* dict([(k, a.get(k, '')) for k in MONITORA_FIELDS]) as DictWriter writes it
ProjectRow(a) ==
    [c \in 1..Len(MONITORA_FIELDS) |->
        CsvCell(DictGet(a, MONITORA_FIELDS[c], PyStr("")))]

\* Variant: an article that cannot be flattened is left out.
FlattenAllSkip(arts, i) ==
    LET ok(a) == _flatten_dict(a, "").exit = 0
        good == SelectSeq(SubSeq(arts, i, Len(arts)), ok)
    IN  [exit |-> 0, out |-> [j \in 1..Len(good) |-> _flatten_dict(good[j], "").d]]

RECURSIVE FlattenAll(_, _)
\* [_flatten_dict(a, '') for a in arts[i..]]: the dicts, or <<>> plus exit 2
FlattenAll(arts, i) ==
    IF i > Len(arts) THEN [exit |-> 0, out |-> <<>>]
    ELSE LET f == _flatten_dict(arts[i], "")
         IN  IF f.exit # 0 THEN [exit |-> 2, out |-> <<>>]
             ELSE LET rest == FlattenAll(arts, i + 1)
                  IN  IF rest.exit # 0 THEN rest
                      ELSE [exit |-> 0, out |-> <<f.d>> \o rest.out]

(***************************************************************************)
(* Component.run and read_feed, step by step                               *)
(***************************************************************************)
Init ==
    /\ state_file \in InitialStateFiles
    /\ start_state = state_file
    /\ last_written = -1
    /\ pc = "idle"
    /\ exc = "none"
    /\ exit_code = -1
    /\ requests = <<>>
    /\ responses = <<>>
    /\ articles = <<>>
    /\ last_processed_id = 0
    /\ flatten_articles = <<>>
    /\ out_file = NoFile
    /\ row_i = 1
    /\ max_id = 0
    /\ manifest = FALSE
    /\ n_mappings = 1
    /\ retry_of = NoRetry
    /\ flat_args = <<>>
    /\ flat_result = FlatOk(EmptyDict)

\* A new process: the state file is carried over, and so is whatever file
\* the run before left at the output path.
FreshRun ==
    /\ pc \in {"idle", "exited"}
    /\ start_state' = state_file
    /\ retry_of' = IF pc = "exited" /\ exit_code # 0
                     THEN [aborted |-> TRUE, state |-> start_state,
                           file |-> out_file.exists]
                     ELSE NoRetry
    /\ responses' = <<>>
    /\ articles' = <<>>
    /\ flatten_articles' = <<>>
    /\ out_file' = IF out_file.exists THEN StaleFile ELSE NoFile
    /\ row_i' = 1
    /\ max_id' = 0
    /\ manifest' = FALSE
    /\ UNCHANGED <<state_file, last_written, flat_args, flat_result>>

\* validate_configuration_parameters fails: a required parameter is missing.
RunBadParameters ==
    /\ FreshRun
    /\ \E n \in 0..MaxMappings : n_mappings' = n
    /\ Raise("UserException")
    /\ requests' = <<>>
    /\ last_processed_id' = 0

\* Variant: only an empty mapping list is rejected.
BadMappingCountEmptyOnly(n) == n = 0

\* len(tables_output_mapping) != 1
BadMappingCount(n) == n # 1

\* The mapping count check fails: sys.exit(1).
RunBadMapping ==
    /\ FreshRun
    /\ \E n \in 0..MaxMappings : BadMappingCount(n) /\ n_mappings' = n
    /\ Raise("SystemExit1")
    /\ requests' = <<>>
    /\ last_processed_id' = 0

\* The run reads the watermark and read_feed issues the initial request.
RunStart ==
    /\ FreshRun
    /\ \E n \in 0..MaxMappings : ~BadMappingCount(n) /\ n_mappings' = n
    /\ LET last == IntOf(DictGet(state_file, STATE_LAST_ID, PyStr("0")))
       IN  /\ last_processed_id' = last
           /\ requests' = <<InitialRequest(ApiToken, FeedId, last)>>
    /\ pc' = "first_response"
    /\ exc' = "none"
    /\ exit_code' = -1

\* The status check after the initial request.
ReadFeedFirstResponse ==
    /\ pc = "first_response"
    /\ \E r \in Responses(Len(requests) < MaxRequests) :
        /\ responses' = Append(responses, r)
        /\ IF InitialFailed(r.status)
             THEN Raise("SystemExit1")
             ELSE pc' = "page" /\ UNCHANGED <<exc, exit_code>>
    /\ UNCHANGED <<state_file, start_state, last_written, requests, articles,
                   last_processed_id, flatten_articles, out_file, row_i, max_id,
                   manifest, n_mappings, retry_of, flat_args, flat_result>>

\* One pass of the while loop up to the next request.
ReadFeedPage ==
    /\ pc = "page"
    /\ LET response == responses[Len(responses)]
           new_data == response.body.obj
       IN  IF ~response.body.json
             THEN Raise("JSONDecodeError") /\ UNCHANGED <<articles, requests>>
           ELSE IF "articles" \notin DOMAIN new_data
             THEN Raise("KeyError") /\ UNCHANGED <<articles, requests>>
           ELSE /\ articles' = Accumulate(articles, new_data["articles"])
                /\ IF "next_url" \notin DOMAIN new_data
                     THEN Raise("KeyError") /\ UNCHANGED requests
                   ELSE IF ~Truthy(new_data["next_url"])
                     THEN /\ pc' = "flatten"
                          /\ UNCHANGED <<exc, exit_code, requests>>
                   ELSE /\ requests' = Append(requests,
                               ContinuationRequest(new_data["next_url"].s,
                                                   ApiToken))
                        /\ pc' = "next_response"
                        /\ UNCHANGED <<exc, exit_code>>
    /\ UNCHANGED <<state_file, start_state, last_written, responses,
                   last_processed_id, flatten_articles, out_file, row_i, max_id,
                   manifest, n_mappings, retry_of, flat_args, flat_result>>

\* The status check after a continuation request.
ReadFeedNextResponse ==
    /\ pc = "next_response"
    /\ \E r \in Responses(Len(requests) < MaxRequests) :
        /\ responses' = Append(responses, r)
        /\ IF ContinuationFailed(r.status)
             THEN Raise("ConnectionError")
             ELSE pc' = "page" /\ UNCHANGED <<exc, exit_code>>
    /\ UNCHANGED <<state_file, start_state, last_written, requests, articles,
                   last_processed_id, flatten_articles, out_file, row_i, max_id,
                   manifest, n_mappings, retry_of, flat_args, flat_result>>

\* read_feed has returned; every article is flattened.
FlattenArticles ==
    /\ pc = "flatten"
    /\ LET r == FlattenAll(articles, 1)
       IN  IF r.exit # 0
             THEN Raise("SystemExit2") /\ UNCHANGED flatten_articles
             ELSE /\ flatten_articles' = r.out
                  /\ pc' = "open"
                  /\ UNCHANGED <<exc, exit_code>>
    /\ UNCHANGED <<state_file, start_state, last_written, requests, responses,
                   articles, last_processed_id, out_file, row_i, max_id,
                   manifest, n_mappings, retry_of, flat_args, flat_result>>

\* Variant: the file is opened for appending.
OpenOutFileAppend ==
    /\ pc = "open"
    /\ out_file' = IF out_file.exists
                     THEN [out_file EXCEPT !.rows = Append(@, MONITORA_FIELDS)]
                     ELSE [exists |-> TRUE, header |-> MONITORA_FIELDS, rows |-> <<>>]
    /\ max_id' = MaxIdStart(last_processed_id)
    /\ row_i' = 1
    /\ pc' = "write"
    /\ UNCHANGED <<state_file, start_state, last_written, exc, exit_code,
                   requests, responses, articles, last_processed_id,
                   flatten_articles, manifest, n_mappings, retry_of, flat_args,
                   flat_result>>

\* Variant: with no articles the table is not written.
OpenOutFileSkipEmpty ==
    /\ pc = "open"
    /\ out_file' = IF flatten_articles = <<>> THEN out_file
                   ELSE [exists |-> TRUE, header |-> MONITORA_FIELDS, rows |-> <<>>]
    /\ max_id' = MaxIdStart(last_processed_id)
    /\ row_i' = 1
    /\ pc' = "write"
    /\ UNCHANGED <<state_file, start_state, last_written, exc, exit_code,
                   requests, responses, articles, last_processed_id,
                   flatten_articles, manifest, n_mappings, retry_of, flat_args,
                   flat_result>>

\* open(..., 'wt'), writeheader, max_id = last_processed_id
OpenOutFile ==
    /\ pc = "open"
    /\ out_file' = [exists |-> TRUE, header |-> MONITORA_FIELDS, rows |-> <<>>]
    /\ max_id' = MaxIdStart(last_processed_id)
    /\ row_i' = 1
    /\ pc' = "write"
    /\ UNCHANGED <<state_file, start_state, last_written, exc, exit_code,
                   requests, responses, articles, last_processed_id,
                   flatten_articles, manifest, n_mappings, retry_of, flat_args, flat_result>>

\* Variant: the state file is rewritten after every row.
WriteRowCheckpoint ==
    /\ pc = "write"
    /\ row_i <= Len(flatten_articles)
    /\ LET a == flatten_articles[row_i]
       IN  /\ out_file' = [out_file EXCEPT !.rows = Append(@, ProjectRow(a))]
           /\ IF "id" \notin DOMAIN a
                THEN Raise("KeyError") /\ UNCHANGED <<max_id, row_i>>
              ELSE IF a["id"].t # "int"
                THEN Raise("TypeError") /\ UNCHANGED <<max_id, row_i>>
              ELSE /\ max_id' = PyMax(max_id, a["id"].i)
                   /\ row_i' = row_i + 1
                   /\ UNCHANGED <<pc, exc, exit_code>>
    /\ state_file' = IF pc' = "write" THEN (STATE_LAST_ID :> PyInt(max_id'))
                     ELSE state_file
    /\ UNCHANGED <<start_state, last_written, requests, responses,
                   articles, last_processed_id, flatten_articles, manifest,
                   n_mappings, retry_of, flat_args, flat_result>>

\* One pass of "for a in flatten_articles".
WriteRow ==
    /\ pc = "write"
    /\ row_i <= Len(flatten_articles)
    /\ LET a == flatten_articles[row_i]
       IN  /\ out_file' = [out_file EXCEPT !.rows = Append(@, ProjectRow(a))]
           /\ IF "id" \notin DOMAIN a
                THEN Raise("KeyError") /\ UNCHANGED <<max_id, row_i>>
              ELSE IF a["id"].t # "int"
                THEN Raise("TypeError") /\ UNCHANGED <<max_id, row_i>>
              ELSE /\ max_id' = PyMax(max_id, a["id"].i)
                   /\ row_i' = row_i + 1
                   /\ UNCHANGED <<pc, exc, exit_code>>
    /\ UNCHANGED <<state_file, start_state, last_written, requests, responses,
                   articles, last_processed_id, flatten_articles, manifest, n_mappings, retry_of,
                   flat_args, flat_result>>

\* Variant: the manifest is not written.
WriteManifestOmitted ==
    /\ pc = "write"
    /\ row_i > Len(flatten_articles)
    /\ pc' = "state"
    /\ UNCHANGED <<state_file, start_state, last_written, exc, exit_code,
                   requests, responses, articles, last_processed_id,
                   flatten_articles, out_file, row_i, max_id, manifest,
                   n_mappings, retry_of, flat_args, flat_result>>

\* The file is closed and write_manifest(table) runs.
WriteManifest ==
    /\ pc = "write"
    /\ row_i > Len(flatten_articles)
    /\ manifest' = TRUE
    /\ pc' = "state"
    /\ UNCHANGED <<state_file, start_state, last_written, exc, exit_code,
                   requests, responses, articles, last_processed_id,
                   flatten_articles, out_file, row_i, max_id, n_mappings, retry_of, flat_args,
                   flat_result>>

\* write_state_file({STATE_LAST_ID: max_id}); run() returns.
WriteState ==
    /\ pc = "state"
    /\ state_file' = (STATE_LAST_ID :> PyInt(max_id))
    /\ last_written' = max_id
    /\ pc' = "exited"
    /\ exc' = "none"
    /\ exit_code' = 0
    /\ UNCHANGED <<start_state, requests, responses, articles,
                   last_processed_id, flatten_articles, out_file, row_i, max_id,
                   manifest, n_mappings, retry_of, flat_args, flat_result>>

Next ==
    \/ RunBadParameters
    \/ RunBadMapping
    \/ RunStart
    \/ ReadFeedFirstResponse
    \/ ReadFeedPage
    \/ ReadFeedNextResponse
    \/ FlattenArticles
    \/ OpenOutFile
    \/ WriteRow
    \/ WriteManifest
    \/ WriteState

Spec == Init /\ [][Next]_vars

(***************************************************************************)
(* _flatten_dict on its own: every record of at most MaxEntries entries    *)
(***************************************************************************)
\* Most key/value entries, counted over all nesting levels, of an input record.
MaxEntries == 3

\* Keys of the top level, and keys of the nested records.
FlatKeys == {"a", "b", "a_b"}
FlatNestedKeys == {"a", "b"}

FlatLeaves ==
    {PyNone, PyInt(1), PyStr("x"), PyFloat("1.5"), PyList(<<1, 2>>), PyBool(TRUE)}

FlatPrefixes == {"", "p"}

\* The records with exactly n entries whose top-level keys are drawn, without
\* repetition, from keys.
RECURSIVE RecordsOfSize(_, _)
RecordsOfSize(keys, n) ==
    IF n = 0 THEN {<<>>}
    ELSE UNION {
           UNION {
             { <<<<k, v>>>> \o rest :
                 v \in (IF m = 0 THEN FlatLeaves \cup {PyDict(<<>>)}
                        ELSE {PyDict(r) : r \in RecordsOfSize(FlatNestedKeys, m)}),
                 rest \in RecordsOfSize(keys \ {k}, n - 1 - m) }
             : m \in 0..(n - 1) }
           : k \in keys }

\* The example record of the specification.
FlatExample ==
    << <<"a", PyDict(<< <<"b", PyInt(1)>> >>)>>,
       <<"c", PyNone>>,
       <<"d", PyList(<<1, 2>>)>> >>

FlatRecords ==
    UNION {RecordsOfSize(FlatKeys, n) : n \in 0..MaxEntries} \cup {FlatExample}

InitFlat ==
    /\ state_file = EmptyDict
    /\ start_state = state_file
    /\ last_written = -1
    /\ pc = "flat_call"
    /\ exc = "none"
    /\ exit_code = -1
    /\ requests = <<>>
    /\ responses = <<>>
    /\ articles = <<>>
    /\ last_processed_id = 0
    /\ flatten_articles = <<>>
    /\ out_file = NoFile
    /\ row_i = 1
    /\ max_id = 0
    /\ manifest = FALSE
    /\ n_mappings = 1
    /\ retry_of = NoRetry
    /\ flat_args \in {<<r, p>> : r \in FlatRecords, p \in FlatPrefixes}
    /\ flat_result = FlatOk(EmptyDict)

\* _flatten_dict(dictionary, prefix) is called and returns (or exits).
FlatCall ==
    /\ pc = "flat_call"
    /\ flat_result' = _flatten_dict(flat_args[1], flat_args[2])
    /\ pc' = "flat_done"
    /\ UNCHANGED <<state_file, start_state, last_written, exc, exit_code,
                   requests, responses, articles, last_processed_id,
                   flatten_articles, out_file, row_i, max_id, manifest,
                   n_mappings, retry_of, flat_args>>

NextFlat == FlatCall

SpecFlat == InitFlat /\ [][NextFlat]_vars

(***************************************************************************)
(* Vocabulary of the properties                                            *)
(***************************************************************************)
\* The watermark a state file holds: 0 when LAST_ID is absent.
Watermark(st) == IF STATE_LAST_ID \in DOMAIN st THEN IntOf(st[STATE_LAST_ID]) ELSE 0

\* The run ended by an error.
Aborted == pc = "exited" /\ exit_code \in {1, 2}

\* The run ended normally.
Succeeded == pc = "exited" /\ exit_code = 0

\* This run has opened the output file.
FileWritten == out_file.exists /\ out_file # StaleFile

\* read_feed has returned its articles to run().
ReadFeedReturned ==
    \/ pc \in {"flatten", "open", "write", "state"}
    \/ pc = "exited" /\ (exit_code = 0 \/ exc = "SystemExit2" \/ FileWritten)

LastResponse == responses[Len(responses)]

\* The values of the top-level key "id" of an unflattened article.
TopLevelIds(a) == {a[j][2] : j \in {x \in 1..Len(a) : a[x][1] = "id"}}

\* The integer top-level ids of the articles fetched.
FetchedIds ==
    {v.i : v \in {w \in UNION {TopLevelIds(articles[j]) : j \in 1..Len(articles)} :
                      w.t = "int"}}

SetMax(S) == CHOOSE m \in S : \A x \in S : m >= x

\* The page of a response: its "articles" array.
PageArticles(r) == r.body.obj["articles"]

RECURSIVE ConcatPages(_, _)
ConcatPages(rs, i) ==
    IF i > Len(rs) THEN <<>> ELSE PageArticles(rs[i]) \o ConcatPages(rs, i + 1)

C2_Monotonic == Watermark(state_file) >= Watermark(start_state)

\* A successful second run that found watermark 3 and fetched only an article
\* with a smaller id.
C2_Witness ==
    /\ Succeeded
    /\ start_state = (STATE_LAST_ID :> PyInt(3))
    /\ articles = <<ArticlePlain>>
    /\ Watermark(state_file) = 3

(***************************************************************************)
(* C3                                                                      *)
(***************************************************************************)
\* C3: a run that ends with exit code 1 or 2 leaves the state file exactly as
\* it found it.
C3_AbortKeepsState == Aborted => state_file = start_state

\* A run that wrote a row with a new largest id and then failed on the next.
C3_Witness ==
    /\ Aborted
    /\ exc = "TypeError"
    /\ Len(out_file.rows) = 2
    /\ max_id > last_processed_id

(***************************************************************************)
(* C4                                                                      *)
(***************************************************************************)
\* C4: a run that aborts has written nothing to the output table file; stated
\* for the runs whose fetched articles all carry an integer top-level id, as
\* the specification promises of every article.
C4_AllOrNothing ==
    (Aborted /\ \A j \in 1..Len(articles) :
                   \E v \in TopLevelIds(articles[j]) : v.t = "int")
        => ~FileWritten

(***************************************************************************)
(* C5                                                                      *)
(***************************************************************************)
\* C5: when read_feed returns after a chain of status-200 pages, its result is
\* the concatenation of the pages' articles in order, one request was issued
\* per page, and every continuation request went to the next_url of the
\* previous response with no query parameters.
C5_Pagination ==
    (ReadFeedReturned /\ \A i \in 1..Len(responses) : responses[i].status = 200) =>
        /\ Len(requests) = Len(responses)
        /\ articles = ConcatPages(responses, 1)
        /\ \A i \in 2..Len(requests) :
              /\ requests[i].url = responses[i - 1].body.obj["next_url"].s
              /\ requests[i].params = NoParams
        /\ ~Truthy(LastResponse.body.obj["next_url"])

\* read_feed returned two non-empty pages.
C5_Witness ==
    /\ pc = "flatten"
    /\ Len(responses) = 2
    /\ \A i \in 1..2 : responses[i].status = 200
    /\ PageArticles(responses[1]) = <<ArticleNested, ArticlePlain>>
    /\ PageArticles(responses[2]) = <<ArticleNullIdFirst>>
    /\ requests[2].url = "https://api.monitora.cz/feed/7?cursor=b"

(***************************************************************************)
(* C6                                                                      *)
(***************************************************************************)
\* A page whose next_url is absent, null or empty has been handled.
C6_LastPageHandled ==
    /\ Len(responses) >= 1
    /\ pc \notin {"page", "first_response", "next_response"}
    /\ LastResponse.status = 200
    /\ LastResponse.body.json
    /\ "articles" \in DOMAIN LastResponse.body.obj
    /\ \/ "next_url" \notin DOMAIN LastResponse.body.obj
       \/ ~Truthy(LastResponse.body.obj["next_url"])

\* C6: once a page whose next_url is absent, null or empty has been handled,
\* read_feed has returned normally and no further request was issued.
C6_Termination ==
    C6_LastPageHandled => ReadFeedReturned /\ Len(requests) = Len(responses)

(***************************************************************************)
(* C7                                                                      *)
(***************************************************************************)
\* C7: once a response with status 401 or 404 has arrived, to the initial or
\* to a continuation request, the run has ended with exit code 1, without
\* opening the output file and with the state file unchanged.
C7_AuthNotFound ==
    (Len(responses) >= 1 /\ LastResponse.status \in {401, 404}) =>
        /\ pc = "exited"
        /\ exit_code = 1
        /\ ~FileWritten
        /\ state_file = start_state

(***************************************************************************)
(* C8                                                                      *)
(***************************************************************************)
\* C8: once a continuation response with a status other than 200, 401 and 404
\* has arrived, the run has ended with exit code 2, no request follows it,
\* it has written no output file and no manifest and the state file is
\* unchanged.
C8_ContinuationError ==
    (Len(responses) >= 2 /\ LastResponse.status \notin {200, 401, 404}) =>
        /\ pc = "exited"
        /\ exit_code = 2
        /\ Len(requests) = Len(responses)
        /\ ~FileWritten
        /\ ~manifest
        /\ state_file = start_state

\* A 500 on the second request, after a first page that delivered articles.
C8_Witness ==
    /\ Len(responses) = 2
    /\ LastResponse.status = 500
    /\ articles = <<ArticleNested, ArticlePlain>>
    /\ exc = "ConnectionError"

(***************************************************************************)
(* C9                                                                      *)
(***************************************************************************)
\* C9: the initial request of a run asks for lower_id = W + 1, W the
\* watermark of the state file the run found (0 without LAST_ID); and until
\* a run writes the state itself, the watermark it read is the integer the
\* last successful run wrote.
C9_LowerId ==
    Len(requests) >= 1 =>
        /\ requests[1].params = ("lower_id" :> (Watermark(start_state) + 1))
        /\ requests[1].url = "https://api.monitora.cz/feed/7"
        /\ (last_written # -1 /\ ~Succeeded) => last_processed_id = last_written

\* A run started after a successful run that had written watermark 3.
C9_Witness ==
    /\ pc = "first_response"
    /\ last_written = 3
    /\ requests[1].params["lower_id"] = 4

(***************************************************************************)
(* C10                                                                     *)
(***************************************************************************)
\* The reference rule: the entries a record contributes, one per leaf, in
\* order, with nothing overwritten.
RECURSIVE RefEntries(_, _, _)
RefEntries(record, i, prefix) ==
    IF i > Len(record) THEN <<>>
    ELSE LET k == record[i][1]
             v == record[i][2]
             merged_key == IF prefix = "" THEN k ELSE prefix \o "_" \o k
             here == CASE v.t = "none" -> << <<k, PyStr("")>> >>
                       [] v.t \in {"str", "int", "float"} -> << <<merged_key, v>> >>
                       [] v.t = "list" -> << <<k, PyStr(StrOfList(v.l))>> >>
                       [] v.t = "dict" -> RefEntries(v.d, 1, merged_key)
                       [] OTHER -> <<>>
         IN  here \o RefEntries(record, i + 1, prefix)

\* Every value of the record, at every depth, has a type the rule covers.
RECURSIVE RefCovers(_)
RefCovers(record) ==
    \A i \in 1..Len(record) :
        LET v == record[i][2]
        IN  \/ v.t \in {"none", "str", "int", "float", "list"}
            \/ v.t = "dict" /\ RefCovers(v.d)

\* No two entries share a key.
RefNoCollision(entries) ==
    \A i, j \in 1..Len(entries) : i # j => entries[i][1] # entries[j][1]

FlatExampleResult ==
    ("a_b" :> PyInt(1)) @@ ("c" :> PyStr("")) @@ ("d" :> PyStr("[1, 2]"))

\* C10: for every record without key collisions whose values are null,
\* strings, numbers, lists and nested records, _flatten_dict(record, prefix)
\* returns exactly the entries of the reference rule; the example record of
\* the specification flattens to {"a_b": 1, "c": "", "d": "[1, 2]"}.
C10_FlattenRule ==
    pc = "flat_done" =>
        LET record == flat_args[1]
            prefix == flat_args[2]
            entries == RefEntries(record, 1, prefix)
        IN  /\ (RefCovers(record) /\ RefNoCollision(entries)) =>
                  /\ flat_result.exit = 0
                  /\ DOMAIN flat_result.d = {entries[i][1] : i \in 1..Len(entries)}
                  /\ \A i \in 1..Len(entries) :
                        flat_result.d[entries[i][1]] = entries[i][2]
            /\ (record = FlatExample /\ prefix = "") =>
                  flat_result = FlatOk(FlatExampleResult)

\* A prefixed call on a record with a nested null and a nested number, free
\* of collisions, has returned.
C10_Witness ==
    /\ pc = "flat_done"
    /\ flat_args = << << <<"a", PyDict(<< <<"b", PyNone>>, <<"a", PyInt(1)>> >>)>> >>,
                      "p" >>
    /\ flat_result = FlatOk(("b" :> PyStr("")) @@ ("p_a_a" :> PyInt(1)))

(***************************************************************************)
(* C11                                                                     *)
(***************************************************************************)
\* The cell of column c in the row of flat record f: the text of f[c], or
\* the empty string when f has no key c.
ExpectedCell(f, c) == IF c \in DOMAIN f THEN CsvCell(f[c]) ELSE ""

\* C11: the header of the output file is MONITORA_FIELDS in declared order,
\* and the j-th row has one cell per column, in that order, holding the
\* j-th flat record's value for the column or the empty string; so the value
\* "x" of the unknown key "zzz" is in no cell.
C11_SchemaPinning ==
    FileWritten =>
        /\ out_file.header = MONITORA_FIELDS
        /\ Len(out_file.rows) <= Len(flatten_articles)
        /\ \A j \in 1..Len(out_file.rows) :
              /\ DOMAIN out_file.rows[j] = 1..Len(MONITORA_FIELDS)
              /\ \A c \in 1..Len(MONITORA_FIELDS) :
                    /\ out_file.rows[j][c] =
                          ExpectedCell(flatten_articles[j], MONITORA_FIELDS[c])
                    /\ out_file.rows[j][c] # "x"

\* A successful run wrote the row of the article that carries the unknown key
\* "zzz" and lacks most columns.
C11_Witness ==
    /\ Succeeded
    /\ articles = <<ArticleNested, ArticlePlain>>
    /\ "zzz" \in DOMAIN flatten_articles[1]
    /\ "title" \notin DOMAIN flatten_articles[1]
    /\ Len(out_file.rows) = 2
    /\ out_file.rows[1][1] = "3"
    /\ out_file.rows[1][2] = ""
    /\ out_file.rows[1][4] = "7"

(***************************************************************************)
(* C12                                                                     *)
(***************************************************************************)
\* C12: a run whose fetch returned zero articles ends with exit code 0, a
\* header-only output file, its manifest written, and a persisted watermark
\* equal to the one it started from.
C12_ZeroArticles ==
    (pc = "exited" /\ ReadFeedReturned /\ articles = <<>>) =>
        /\ exit_code = 0
        /\ out_file = [exists |-> TRUE, header |-> MONITORA_FIELDS, rows |-> <<>>]
        /\ manifest
        /\ STATE_LAST_ID \in DOMAIN state_file
        /\ Watermark(state_file) = Watermark(start_state)

\* One 200 page with an empty "articles" array and a null next_url, found
\* with watermark 2.
C12_Witness ==
    /\ Succeeded
    /\ responses = <<[status |-> 200,
                      body |-> BodyObject(("articles" :> <<>>) @@ ("next_url" :> PyNone))]>>
    /\ start_state = (STATE_LAST_ID :> PyStr("2"))
    /\ state_file = (STATE_LAST_ID :> PyInt(2))

(***************************************************************************)
(* C13                                                                     *)
(***************************************************************************)
\* What a run that nothing preceded produces from the remote data alone: the
\* table of the articles of all pages, and the watermark w raised to their
\* largest id.
CleanRow(a) ==
    LET f == _flatten_dict(a, "").d
    IN  [c \in 1..Len(MONITORA_FIELDS) |-> ExpectedCell(f, MONITORA_FIELDS[c])]

CleanFile(rs) ==
    LET arts == ConcatPages(rs, 1)
    IN  [exists |-> TRUE,
         header |-> MONITORA_FIELDS,
         rows |-> [j \in 1..Len(arts) |-> CleanRow(arts[j])]]

CleanState(w, rs) ==
    LET arts == ConcatPages(rs, 1)
        ids == {v.i : v \in {x \in UNION {TopLevelIds(arts[j]) : j \in 1..Len(arts)} :
                                 x.t = "int"}}
    IN  STATE_LAST_ID :> PyInt(SetMax(ids \cup {w}))

\* The watermark the run, or the aborted run it repeats, started from.
C13_FirstWatermark ==
    IF retry_of.aborted THEN Watermark(retry_of.state) ELSE Watermark(start_state)

\* C13: a run that follows an aborted run issues the initial request the
\* aborted run issued (lower_id = its starting watermark + 1), and every
\* successful run, whether it follows an aborted run or not, ends with the
\* output file and the state file that the remote data and that watermark
\* alone determine.
C13_Rerun ==
    /\ Len(requests) >= 1 =>
          requests[1] = [url |-> "https://api.monitora.cz/feed/7",
                         authorization |-> "Token secret-token",
                         params |-> ("lower_id" :> (C13_FirstWatermark + 1))]
    /\ Succeeded =>
          /\ out_file = CleanFile(responses)
          /\ state_file = CleanState(C13_FirstWatermark, responses)

\* A successful run after a run that aborted from watermark 2 and left a file
\* at the output path.
C13_Witness ==
    /\ Succeeded
    /\ retry_of = [aborted |-> TRUE, state |-> (STATE_LAST_ID :> PyStr("2")),
                   file |-> TRUE]
    /\ articles = <<ArticleNested, ArticlePlain>>
    /\ Len(out_file.rows) = 2
    /\ state_file = (STATE_LAST_ID :> PyInt(3))

(***************************************************************************)
(* C14                                                                     *)
(***************************************************************************)
\* C14: a run configured with a number of output table mappings other than
\* one (none, or two or more) is over with exit code 1, has issued no HTTP
\* request, has written neither the output file nor the manifest, and has
\* left the state file as it found it.
C14_MappingCount ==
    (pc # "idle" /\ n_mappings # 1) =>
        /\ pc = "exited"
        /\ exit_code = 1
        /\ requests = <<>>
        /\ responses = <<>>
        /\ ~FileWritten
        /\ ~manifest
        /\ state_file = start_state

\* A run with two mappings stopped by the mapping count check.
C14_Witness ==
    /\ pc = "exited"
    /\ n_mappings = 2
    /\ exc = "SystemExit1"
    /\ exit_code = 1
    /\ requests = <<>>

(***************************************************************************)
(* C15                                                                     *)
(***************************************************************************)
\* Some article fetched by the run holds, at some depth, a value that is not
\* null, a string, a number, a nested record or a list.
C15_UnsupportedFetched == \E j \in 1..Len(articles) : ~RefCovers(articles[j])

\* C15: once the run has fetched an article holding a value of an unsupported
\* type at any depth, it never gets as far as opening the output file: no
\* row, manifest or state is written, not even for the well-formed articles
\* of the same run, and when the process is over its exit code is 2.
C15_UnsupportedType ==
    C15_UnsupportedFetched =>
        /\ pc \notin {"open", "write", "state"}
        /\ flatten_articles = <<>>
        /\ ~FileWritten
        /\ ~manifest
        /\ state_file = start_state
        /\ pc = "exited" => exit_code = 2

\* A well-formed article and one with a nested boolean were fetched, and the
\* flattening ended the run.
C15_Witness ==
    /\ pc = "exited"
    /\ exc = "SystemExit2"
    /\ exit_code = 2
    /\ articles = <<ArticlePlain, ArticleBool>>
    /\ Len(responses) = 1

(***************************************************************************)
(* C16                                                                     *)
(***************************************************************************)
\* The position of the last entry emitted under key.
C16_LastIndex(entries, key) ==
    SetMax({i \in 1..Len(entries) : entries[i][1] = key})

\* C16: when the entries emitted for a record (all values of supported types)
\* collide on a key, the dict _flatten_dict returns holds exactly the emitted
\* keys, and each key carries the value emitted last under it in the
\* record's iteration order: a nested record's entry replaces one emitted
\* before it, and a later sibling replaces it in turn.
C16_LastEmittedWins ==
    pc = "flat_done" =>
        LET record == flat_args[1]
            entries == RefEntries(record, 1, flat_args[2])
            keys == {entries[i][1] : i \in 1..Len(entries)}
        IN  (RefCovers(record) /\ ~RefNoCollision(entries)) =>
                /\ flat_result.exit = 0
                /\ DOMAIN flat_result.d = keys
                /\ \A key \in keys :
                      flat_result.d[key] = entries[C16_LastIndex(entries, key)][2]

\* The null "b" of the nested record has replaced the top-level "b" emitted
\* before it.
C16_Witness ==
    /\ pc = "flat_done"
    /\ flat_args = << << <<"b", PyInt(1)>>,
                         <<"a", PyDict(<< <<"b", PyNone>> >>)>> >>,
                      "" >>
    /\ flat_result = FlatOk("b" :> PyStr(""))

(***************************************************************************)
(* C17                                                                     *)
(***************************************************************************)
\* C17: in every row written for an article that has an integer top-level
\* id, the id column (the first of MONITORA_FIELDS) holds that id; no nested
\* field of the article replaces it.
C17_PrimaryKey ==
    FileWritten =>
        \A j \in 1..Len(out_file.rows) :
            \A v \in TopLevelIds(articles[j]) :
                v.t = "int" =>
                    /\ MONITORA_FIELDS[1] = "id"
                    /\ out_file.rows[j][1] = ToString(v.i)

(***************************************************************************)
(* C18                                                                     *)
(***************************************************************************)
\* C18: when read_feed has returned, every response whose body it parsed, the
\* initial one included, had status 200.
C18_Only200 ==
    ReadFeedReturned => \A i \in 1..Len(responses) : responses[i].status = 200

(***************************************************************************)
(* C19                                                                     *)
(***************************************************************************)
\* C19: the effects of a run come in the order fetch, flatten, rows,
\* manifest, state.  While pages are fetched or flattened nothing has been
\* written; the output file is written only after read_feed has returned and
\* every article is flattened; the manifest is written only over a file with
\* one row per fetched article; and the state file differs from the one the
\* run found, or the run has ended normally, only when the file holds one
\* row per fetched article and the manifest is written, the run being over.
C19_CommitOrdering ==
    /\ pc \in {"first_response", "page", "next_response", "flatten"} =>
          /\ flatten_articles = <<>>
          /\ ~FileWritten
          /\ ~manifest
    /\ FileWritten =>
          /\ ReadFeedReturned
          /\ Len(flatten_articles) = Len(articles)
          /\ Len(out_file.rows) <= Len(articles)
    /\ manifest =>
          /\ FileWritten
          /\ Len(out_file.rows) = Len(articles)
    /\ (state_file # start_state \/ Succeeded) =>
          /\ pc = "exited"
          /\ exit_code = 0
          /\ manifest
          /\ FileWritten
          /\ Len(out_file.rows) = Len(articles)
          /\ state_file = (STATE_LAST_ID :> PyInt(max_id))

\* A run over two pages has written three rows, the manifest and a new
\* watermark.
C19_Witness ==
    /\ Succeeded
    /\ Len(responses) = 2
    /\ Len(articles) = 3
    /\ Len(out_file.rows) = 3
    /\ manifest
    /\ state_file # start_state

=============================================================================
